---- MODULE Spec2Model ----
(***************************************************************************)
(* A model of company-agents: the interactive loop of main.py and the      *)
(* Teams bot server of src/interfaces/teams_bot.py, both in front of       *)
(* Orchestrator.run (src/core/orchestrator.py).                            *)
(*                                                                         *)
(* Strings are sequences of one-character strings, so that str.strip(),    *)
(* str.lower() and the "or" fallbacks of the code are computed, not        *)
(* assumed.  Fixed reply texts and formatted messages are sequences of     *)
(* longer tokens; a user's text never equals one of them.  The German     *)
(* reply texts are written in ASCII.                                       *)
(*                                                                         *)
(* A handler's code between two awaits runs without interruption on the    *)
(* event loop, so an action is a handler from one suspension to the next:  *)
(* the download, the write, the executor's future.  turn_context's         *)
(* send_activity is taken to deliver.                                      *)
(*                                                                         *)
(* Four specifications: Spec is main() with the interactive loop and the   *)
(* bot server; ToolSpec is the Lexoffice tools of src/tools/lexoffice.py   *)
(* as the reasoning loop calls them, each call with an environment of its  *)
(* own (the path's stat, open, the HTTP exchange); UploadSpec is the bot   *)
(* server with two users of one tenant who upload files at the same time;  *)
(* LiveSpec is the bot server with one activity for every path of the turn *)
(* handler, under weak fairness of the steps the event loop resumes.       *)
(***************************************************************************)
EXTENDS Integers, Sequences, FiniteSets, TLC

\* ------------------------------------------------------------------ bounds

\* Longest activity text the primary request carries.
MaxTextLen == 2

\* Most attachments an activity carries.
MaxAttachments == 2

\* Most lines the interactive loop reads in one run.
MaxCliLines == 3

\* Longest document id the accounting API answers an upload with.
MaxIdLen == 2

\* Most calls of the Lexoffice tools in one run.
MaxToolCalls == 2

\* ----------------------------------------------------------------- strings

\* Python's None.  A sequence holding one long token: no string built from
\* single characters equals it.
None == <<"None">>

\* The characters str.strip() removes that the inputs below use.
Whitespace == {" ", "\t"}

RECURSIVE LStrip(_)
LStrip(s) ==
    IF s # <<>> /\ Head(s) \in Whitespace THEN LStrip(Tail(s)) ELSE s

RECURSIVE RStrip(_)
RStrip(s) ==
    IF s # <<>> /\ s[Len(s)] \in Whitespace
    THEN RStrip(SubSeq(s, 1, Len(s) - 1))
    ELSE s

\* A faulty variant of Strip: only leading whitespace is removed (str.lstrip()).
StripLeadingOnly(s) == LStrip(s)

\* str.strip()
Strip(s) == RStrip(LStrip(s))

\* One character of str.lower(), over the letters the inputs below use.
LowerChar(c) ==
    CASE c = "E" -> "e"
      [] c = "X" -> "x"
      [] c = "I" -> "i"
      [] c = "T" -> "t"
      [] c = "Q" -> "q"
      [] c = "U" -> "u"
      [] OTHER -> c

\* str.lower()
Lower(s) == [i \in 1..Len(s) |-> LowerChar(s[i])]

\* Python's truthiness of a string-or-None value.
Truthy(x) == x # None /\ x # <<>>

\* Python's "x or d" for a string-or-None x.
OrElse(x, d) == IF Truthy(x) THEN x ELSE d

\* All sequences over S of length at most n.
RECURSIVE SeqsUpTo(_, _)
SeqsUpTo(S, n) ==
    IF n = 0 THEN {<<>>}
    ELSE LET shorter == SeqsUpTo(S, n - 1)
         IN  shorter \cup {Append(s, x) : s \in shorter, x \in S}

\* ------------------------------------------------------------ fixed texts

DenialText ==
    <<"Zugriff verweigert: Ihr Azure-Mandant ist nicht fuer diesen Bot autorisiert.">>

PleaseSendText ==
    <<"Bitte senden Sie eine Textnachricht oder eine Datei als Anhang.">>

ProcessingText == <<"Ihre Anfrage wird verarbeitet, bitte warten ...">>

NoDownloadUrlText ==
    <<"Die Datei konnte nicht heruntergeladen werden: keine Download-URL vorhanden.">>

ApologyText ==
    <<"Es ist ein interner Fehler aufgetreten. Bitte versuchen Sie es erneut.">>

\* status is the status code as a string token, e.g. "404".
DownloadFailedText(status) ==
    <<"Datei-Download fehlgeschlagen (HTTP ", status, ").">>

DownloadErrorText(exc) ==
    <<"Beim Herunterladen der Datei ist ein Fehler aufgetreten: ", exc>>

FileReceivedText(filename) ==
    <<"Datei '">> \o filename \o <<"' wurde empfangen und gespeichert. Verarbeitung laeuft ...">>

\* UPLOADS_DIR / filename, resolved.
FilePath(filename) == <<"/uploads/">> \o filename

AgentMessage(filename) ==
    <<"Eine Datei wurde hochgeladen und unter folgendem Pfad gespeichert: ">>
        \o FilePath(filename) \o <<". Dateiname: ">> \o filename
        \o <<". Bitte verarbeite diese Datei entsprechend.">>

\* f"Document uploaded successfully. Document ID: {document_id}"
UploadSuccessText(document_id) ==
    <<"Document uploaded successfully.", " ", "Document ID:", " ">> \o document_id

FileDownloadInfo == "application/vnd.microsoft.teams.file.download.info"

\* ------------------------------------------------------------------ inputs

Chars == {" ", "a"}

\* activity.text: absent, or a string.
Texts == {None} \cup SeqsUpTo(Chars, MaxTextLen)

TenantA == <<"a">>
TenantB == <<"b">>

NoTenant == [kind |-> "absent", id |-> None]

\* activity.channel_data: not a dict, a dict without a tenant dict, or a dict
\* whose tenant dict carries an id.
ChannelDatas ==
    {[kind |-> "none", tenant |-> NoTenant],
     [kind |-> "dict", tenant |-> NoTenant],
     [kind |-> "dict", tenant |-> [kind |-> "dict", id |-> TenantA]],
     [kind |-> "dict", tenant |-> [kind |-> "dict", id |-> TenantB]]}

Url1 == <<"https://files.example/1">>
Url2 == <<"https://files.example/2">>

\* An inline image: not a Teams file-download descriptor.
ImageAttachment ==
    [content_type |-> "image/png",
     content |-> [kind |-> "dict", downloadUrl |-> Url1],
     name |-> <<"i">>]

\* A Teams file-download descriptor with a download URL and a name.
FileAttachment ==
    [content_type |-> FileDownloadInfo,
     content |-> [kind |-> "dict", downloadUrl |-> Url1],
     name |-> <<"f">>]

\* A Teams file-download descriptor whose content is absent.
FileNoUrlAttachment ==
    [content_type |-> FileDownloadInfo,
     content |-> [kind |-> "none", downloadUrl |-> None],
     name |-> <<"f">>]

\* The file a concurrent user uploads: the same name, other bytes.
OtherFileAttachment ==
    [content_type |-> FileDownloadInfo,
     content |-> [kind |-> "dict", downloadUrl |-> Url2],
     name |-> <<"f">>]

\* A file of the concurrent user under a name of its own.
DistinctFileAttachment ==
    [content_type |-> FileDownloadInfo,
     content |-> [kind |-> "dict", downloadUrl |-> Url2],
     name |-> <<"g">>]

AttachmentSamples == {ImageAttachment, FileAttachment, FileNoUrlAttachment}

AttachmentLists == SeqsUpTo(AttachmentSamples, MaxAttachments)

ActivityTypes == {"message", "typing"}

\* The texts and attachment lists of length at most one.
ShortTexts == {t \in Texts : t = None \/ Len(t) <= 1}
ShortLists == {l \in AttachmentLists : Len(l) <= 1}

\* channel_data of an activity from tenant a.
FromTenantA == [kind |-> "dict", tenant |-> [kind |-> "dict", id |-> TenantA]]

\* Message activities.  From every tenant: every text without attachments,
\* and every short text with a short attachment list.  From tenant a: every
\* text with a short attachment list, and every attachment list with a
\* short text.
MessageActivities ==
    [type : {"message"}, channel_data : ChannelDatas,
     text : Texts, attachments : {<<>>}]
    \cup [type : {"message"}, channel_data : ChannelDatas,
          text : ShortTexts, attachments : ShortLists]
    \cup [type : {"message"}, channel_data : {FromTenantA},
          text : Texts, attachments : ShortLists]
    \cup [type : {"message"}, channel_data : {FromTenantA},
          text : ShortTexts, attachments : AttachmentLists]

\* Activities of another type: with and without text and a file.
OtherActivities ==
    [type : ActivityTypes \ {"message"}, channel_data : ChannelDatas,
     text : {None, <<"a">>}, attachments : {<<>>, <<FileAttachment>>}]

Activities == MessageActivities \cup OtherActivities

\* The activities of the second, concurrent user: a text message and a file
\* upload, both from tenant a.
BackgroundActivities ==
    [type : {"message"},
     channel_data : {FromTenantA},
     text : {<<"a", "a">>},
     attachments : {<<>>, <<OtherFileAttachment>>}]

\* A request body that is not JSON.
InvalidBody ==
    [type |-> "<not json>", channel_data |-> [kind |-> "none", tenant |-> NoTenant],
     text |-> None, attachments |-> <<>>]

JsonContentType == <<"application/json">>

\* request.content_type, as the tokens it is made of.
ContentTypes == {JsonContentType, <<"text/plain">>, <<"application/json", "-seq">>}

\* The POSTs the first connection carries: every activity as JSON, and every
\* content type with a few bodies.
PrimaryRequests ==
    {[content_type |-> JsonContentType, body |-> a] : a \in Activities}
    \cup {[content_type |-> ct, body |-> b] :
            ct \in ContentTypes, b \in {InvalidBody} \cup BackgroundActivities}

\* The POSTs the second connection carries.
BackgroundRequests ==
    {[content_type |-> JsonContentType, body |-> a] : a \in BackgroundActivities}

\* The two connections the server handles at the same time.
Requests == {1, 2}

RequestsOf(r) == IF r = 1 THEN PrimaryRequests ELSE BackgroundRequests

NoRequest == [content_type |-> <<>>, body |-> InvalidBody]

\* AZURE_TENANT_ID in the environment: unset or empty, blank, or a tenant.
EnvTenants == {<<>>, <<" ">>, TenantA}

\* What the fetch of a download URL comes to: the bytes, a non-200 status,
\* or an exception.
DownloadOutcomes(url) ==
    {[kind |-> "ok", val |-> <<"bytes of ">> \o url],
     [kind |-> "status", val |-> <<"404">>],
     [kind |-> "raise", val |-> <<"ClientConnectorError">>]}

\* ----------------------------------------------------------------- state

VARIABLES
    mode,           \* main(): "init", "cli", "teams" or "failed"
    allowedTenant,  \* CompanyTeamsBot._allowed_tenant
    request,        \* per connection: the POST being handled
    pc,             \* per connection: where its handler stands
    log,            \* per connection: what the handler did, in order
    status,         \* per connection: the HTTP status answered (0: none yet)
    local,          \* per connection: the handler's local variables
    files,          \* the uploads directory: filename -> bytes
    cliPc,          \* run_cli: "off", "prompt", "running", "exited", "crashed"
    cliLog,         \* run_cli: what it read, called and printed, in order
    apiKey,         \* the environment's LEXOFFICE_API_KEY (None: not set)
    lastCall,       \* the latest call of a Lexoffice tool and what it came to
    nCalls,         \* the tool calls made so far
    nRequests       \* the HTTP requests the tools have issued so far

botVars == <<allowedTenant, request, pc, log, status, local, files>>
cliVars == <<cliPc, cliLog>>
toolVars == <<apiKey, lastCall, nCalls, nRequests>>
vars == <<mode, allowedTenant, request, pc, log, status, local, files, cliPc, cliLog,
          apiKey, lastCall, nCalls, nRequests>>

Event(ev, val) == [ev |-> ev, val |-> val]

\* No tool has been called yet.
NoCall == [op |-> "none", arg |-> <<>>, env |-> [stat |-> "none"], events |-> <<>>,
           result |-> [kind |-> "none", val |-> <<>>]]

NoLocal == [filename |-> <<>>, url |-> <<>>, data |-> <<>>, message |-> <<>>,
            branch |-> "none", future |-> [kind |-> "none", val |-> <<>>],
            read |-> None]

Init ==
    /\ mode = "init"
    /\ allowedTenant = None
    /\ request = [r \in Requests |-> NoRequest]
    /\ pc = [r \in Requests |-> "idle"]
    /\ log = [r \in Requests |-> <<>>]
    /\ status = [r \in Requests |-> 0]
    /\ local = [r \in Requests |-> NoLocal]
    /\ files = <<>>
    /\ cliPc = "off"
    /\ cliLog = <<>>
    /\ apiKey = None
    /\ lastCall = NoCall
    /\ nCalls = 0
    /\ nRequests = 0

\* ------------------------------------------------------------ Orchestrator

\* The reply the reasoning capability gives to a message.
Answer(message) == <<"Antwort auf: ">> \o message

\* The message is the one the bot writes for a saved file.
IsUploadMessage(message) ==
    message # <<>> /\ Head(message) = Head(AgentMessage(<<>>))

\* The reply of an agent that called upload_document and quotes its result.
UploadAnswer(message) ==
    Answer(message) \o <<" ">> \o UploadSuccessText(<<"a", "a">>)

\* Orchestrator.run(message): the agent's final message content, or the
\* exception the reasoning capability raised.
OrchestratorOutcomes(message) ==
    {[kind |-> "ok", val |-> Answer(message)],
     [kind |-> "raise", val |-> <<"RuntimeError">>]}
    \cup IF IsUploadMessage(message)
         THEN {[kind |-> "ok", val |-> UploadAnswer(message)]}
         ELSE {}

\* ----------------------------------------------------------------- startup

\* _build_adapter and CompanyTeamsBot.__init__, as create_app runs them.
CreateApp(env) ==
    /\ IF ~Truthy(env)
       THEN /\ mode' = "failed"
            /\ allowedTenant' = None
       ELSE /\ mode' = "teams"
            /\ allowedTenant' = OrElse(Strip(env), None)
    /\ UNCHANGED <<request, pc, log, status, local, files, cliPc, cliLog, toolVars>>

CliBanner ==
    <<Event("print", <<"Company Agents - Multi-Agent System">>),
      Event("print", <<"Type 'exit' to quit.\n">>)>>

\* main(): --teams starts the bot server, otherwise the interactive loop.
Main ==
    /\ mode = "init"
    /\ \/ \E env \in EnvTenants : CreateApp(env)
       \/ /\ mode' = "cli"
          /\ cliPc' = "prompt"
          /\ cliLog' = CliBanner
          /\ UNCHANGED <<botVars, toolVars>>

\* ------------------------------------------------------- the bot's handler

\* "application/json" in request.content_type
HasJson(ct) == \E i \in 1..Len(ct) : ct[i] = "application/json"

\* CompanyTeamsBot._extract_tenant_id
ExtractTenantId(activity) ==
    IF activity.channel_data.kind # "dict" THEN None
    ELSE IF activity.channel_data.tenant.kind = "dict"
         THEN activity.channel_data.tenant.id
         ELSE None

\* A faulty variant of TenantDenied: an activity without a tenant id is let through.
TenantDeniedOnlyWhenPresent(allowed, activity) ==
    /\ Truthy(allowed)
    /\ ExtractTenantId(activity) # None
    /\ ExtractTenantId(activity) # allowed

\* The tenant check of _on_message: TRUE when the activity is turned away.
TenantDenied(allowed, activity) ==
    Truthy(allowed) /\ ExtractTenantId(activity) # allowed

\* A faulty variant of FirstFileAttachment: the index of the last such
\* attachment.
LastFileAttachment(attachments) ==
    IF \E i \in 1..Len(attachments) : attachments[i].content_type = FileDownloadInfo
    THEN CHOOSE i \in 1..Len(attachments) :
            /\ attachments[i].content_type = FileDownloadInfo
            /\ \A j \in (i + 1)..Len(attachments) :
                    attachments[j].content_type # FileDownloadInfo
    ELSE 0

\* The index of the first attachment that is a Teams file-download
\* descriptor, 0 when there is none.
FirstFileAttachment(attachments) ==
    IF \E i \in 1..Len(attachments) : attachments[i].content_type = FileDownloadInfo
    THEN CHOOSE i \in 1..Len(attachments) :
            /\ attachments[i].content_type = FileDownloadInfo
            /\ \A j \in 1..(i - 1) : attachments[j].content_type # FileDownloadInfo
    ELSE 0

\* What a stretch of handler code comes to: where the handler stands after
\* it, what it did, and its local variables.
Turn(next, events, loc) == [pc |-> next, events |-> events, local |-> loc]

\* content.get("downloadUrl") if isinstance(content, dict) else None
DownloadUrl(attachment) ==
    IF attachment.content.kind = "dict" THEN attachment.content.downloadUrl ELSE None

\* datetime.now().strftime('%Y%m%d_%H%M%S'): what the clock may read.
Timestamps == {"20260101_120000", "20260101_120001"}

\* A faulty variant of ResolveFilename: every upload is saved under one name.
ResolveFilenameOneName(attachment, now) == <<"upload">>

\* attachment.name or the timestamp fallback
ResolveFilename(attachment, now) == OrElse(attachment.name, <<"upload_", now>>)

\* The filenames the attachment may be saved under.
Filenames(attachment) == {ResolveFilename(attachment, now) : now \in Timestamps}

\* A faulty variant of HandleFileAttachment: without a download URL the
\* handler returns and says nothing.
HandleFileAttachmentSilent(attachment) ==
    IF ~Truthy(DownloadUrl(attachment))
    THEN {Turn("returned", <<>>, NoLocal)}
    ELSE {Turn("download", <<>>,
               [NoLocal EXCEPT !.branch = "file",
                               !.url = DownloadUrl(attachment),
                               !.filename = filename]) :
            filename \in Filenames(attachment)}

\* _handle_file_attachment up to the download: the turns it may take.
HandleFileAttachment(attachment) ==
    IF ~Truthy(DownloadUrl(attachment))
    THEN {Turn("returned", <<Event("reply", NoDownloadUrlText)>>, NoLocal)}
    ELSE {Turn("download", <<>>,
               [NoLocal EXCEPT !.branch = "file",
                               !.url = DownloadUrl(attachment),
                               !.filename = filename]) :
            filename \in Filenames(attachment)}

\* A faulty variant of TextBranch: the text is not trimmed before it is tested.
TextBranchNoStrip(activity) ==
    LET text == OrElse(activity.text, <<>>)
    IN  IF ~Truthy(text)
        THEN Turn("returned", <<Event("reply", PleaseSendText)>>, NoLocal)
        ELSE Turn("run_agent", <<Event("reply", ProcessingText)>>,
                  [NoLocal EXCEPT !.branch = "text", !.message = text])

\* A faulty variant of TextBranch: the agent is called without the
\* "processing" acknowledgement.
TextBranchNoAck(activity) ==
    LET text == Strip(OrElse(activity.text, <<>>))
    IN  IF ~Truthy(text)
        THEN Turn("returned", <<Event("reply", PleaseSendText)>>, NoLocal)
        ELSE Turn("run_agent", <<>>,
                  [NoLocal EXCEPT !.branch = "text", !.message = text])

\* The text branch of _on_message up to the agent call.
TextBranch(activity) ==
    LET text == Strip(OrElse(activity.text, <<>>))
    IN  IF ~Truthy(text)
        THEN Turn("returned", <<Event("reply", PleaseSendText)>>, NoLocal)
        ELSE Turn("run_agent", <<Event("reply", ProcessingText)>>,
                  [NoLocal EXCEPT !.branch = "text", !.message = text])

\* A faulty variant of OnMessage: a message with text takes the text branch, and
\* its attachments are looked at only when it has none.
OnMessageTextFirst(allowed, activity) ==
    IF TenantDenied(allowed, activity)
    THEN {Turn("returned", <<Event("reply", DenialText)>>, NoLocal)}
    ELSE LET i == FirstFileAttachment(activity.attachments)
         IN  IF i # 0 /\ ~Truthy(Strip(OrElse(activity.text, <<>>)))
             THEN HandleFileAttachment(activity.attachments[i])
             ELSE {TextBranch(activity)}

\* CompanyTeamsBot._on_message up to its first suspension: the turns it
\* may take.
OnMessage(allowed, activity) ==
    IF TenantDenied(allowed, activity)
    THEN {Turn("returned", <<Event("reply", DenialText)>>, NoLocal)}
    ELSE LET i == FirstFileAttachment(activity.attachments)
         IN  IF i # 0
             THEN HandleFileAttachment(activity.attachments[i])
             ELSE {TextBranch(activity)}

\* A faulty variant of OnTurn: every activity type is handled as a message.
OnTurnNoTypeFilter(allowed, activity) ==
    {[turn EXCEPT !.events = <<Event("on_turn", <<>>)>> \o turn.events] :
        turn \in OnMessage(allowed, activity)}

\* CompanyTeamsBot.on_turn: the turns it may take.
OnTurn(allowed, activity) ==
    {[turn EXCEPT !.events = <<Event("on_turn", <<>>)>> \o turn.events] :
        turn \in IF activity.type = "message"
                 THEN OnMessage(allowed, activity)
                 ELSE {Turn("returned", <<>>, NoLocal)}}

\* The status messages() answers once process_activity has returned.
StatusAfterTurn == 200

\* The status messages() answers when process_activity raised.
StatusOnException == 500

\* A faulty variant of ProtocolStatus: the body is parsed before the content type is
\* looked at.
ProtocolStatusParseFirst(h) ==
    IF h.body = InvalidBody THEN 400
    ELSE IF ~HasJson(h.content_type) THEN 415
    ELSE 0

\* messages(): the content-type check, then the JSON parse.  The status the
\* request is turned away with, 0 when it goes on to the adapter.
ProtocolStatus(h) ==
    IF ~HasJson(h.content_type) THEN 415
    ELSE IF h.body = InvalidBody THEN 400
    ELSE 0

\* messages(): the protocol checks, the adapter's check of the Authorization
\* header (authOk is its verdict) and, through process_activity, the bot's
\* turn up to its first suspension.
MessagesFrom(r, requests) ==
    /\ mode = "teams"
    /\ pc[r] = "idle"
    /\ \E h \in requests, authOk \in BOOLEAN :
        /\ request' = [request EXCEPT ![r] = h]
        /\ IF ProtocolStatus(h) # 0
           THEN /\ status' = [status EXCEPT ![r] = ProtocolStatus(h)]
                /\ pc' = [pc EXCEPT ![r] = "done"]
                /\ UNCHANGED <<log, local>>
           ELSE IF ~authOk
           THEN /\ log' = [log EXCEPT ![r] =
                            <<Event("process_activity", <<>>),
                              Event("auth_rejected", <<>>)>>]
                /\ status' = [status EXCEPT ![r] = StatusOnException]
                /\ pc' = [pc EXCEPT ![r] = "done"]
                /\ UNCHANGED local
           ELSE \E turn \in OnTurn(allowedTenant, h.body) :
                    /\ log' = [log EXCEPT ![r] =
                                <<Event("process_activity", <<>>)>> \o turn.events]
                    /\ local' = [local EXCEPT ![r] = turn.local]
                    /\ IF turn.pc = "returned"
                       THEN /\ status' = [status EXCEPT ![r] = StatusAfterTurn]
                            /\ pc' = [pc EXCEPT ![r] = "done"]
                       ELSE /\ pc' = [pc EXCEPT ![r] = turn.pc]
                            /\ UNCHANGED status
    /\ UNCHANGED <<mode, allowedTenant, files, cliPc, cliLog, toolVars>>

\* A POST arrives on connection r.
Messages(r) == MessagesFrom(r, RequestsOf(r))

\* The handler returned to messages(): the response is 200.
Returned(r, events) ==
    /\ log' = [log EXCEPT ![r] = log[r] \o events]
    /\ status' = [status EXCEPT ![r] = StatusAfterTurn]
    /\ pc' = [pc EXCEPT ![r] = "done"]

\* A faulty variant of Download: the body of a response is saved whatever
\* its status.
DownloadNoStatusCheck(r) ==
    /\ pc[r] = "download"
    /\ \E o \in DownloadOutcomes(local[r].url) :
        IF o.kind = "raise"
        THEN /\ Returned(r, <<Event("download", local[r].url),
                              Event("fetch_raised", o.val),
                              Event("reply", DownloadErrorText(o.val[1]))>>)
             /\ UNCHANGED local
        ELSE /\ log' = [log EXCEPT ![r] = log[r] \o
                          <<Event("download", local[r].url),
                            Event("status", IF o.kind = "ok" THEN <<"200">> ELSE o.val)>>]
             /\ local' = [local EXCEPT ![r].data = o.val]
             /\ pc' = [pc EXCEPT ![r] = "write"]
             /\ UNCHANGED status
    /\ UNCHANGED <<mode, allowedTenant, request, files, cliPc, cliLog, toolVars>>

\* _handle_file_attachment: the GET of the download URL.
Download(r) ==
    /\ pc[r] = "download"
    /\ \E o \in DownloadOutcomes(local[r].url) :
        CASE o.kind = "ok" ->
                /\ log' = [log EXCEPT ![r] = log[r] \o
                             <<Event("download", local[r].url),
                               Event("status", <<"200">>)>>]
                /\ local' = [local EXCEPT ![r].data = o.val]
                /\ pc' = [pc EXCEPT ![r] = "write"]
                /\ UNCHANGED status
          [] o.kind = "status" ->
                /\ Returned(r, <<Event("download", local[r].url),
                                 Event("status", o.val),
                                 Event("reply", DownloadFailedText(o.val[1]))>>)
                /\ UNCHANGED local
          [] o.kind = "raise" ->
                /\ Returned(r, <<Event("download", local[r].url),
                                 Event("fetch_raised", o.val),
                                 Event("reply", DownloadErrorText(o.val[1]))>>)
                /\ UNCHANGED local
    /\ UNCHANGED <<mode, allowedTenant, request, files, cliPc, cliLog, toolVars>>

\* What open(file_path, "wb") and f.write(data) come to: the file holds the
\* data, open raised and the directory is as it was, or write raised and the
\* file is left truncated.
WriteOutcomes == {"ok", "open raises", "write raises"}

\* _handle_file_attachment: the write to uploads/, then the acknowledgement.
WriteFile(r) ==
    /\ pc[r] = "write"
    /\ \E o \in WriteOutcomes :
        CASE o = "ok" ->
                /\ files' = (local[r].filename :> local[r].data) @@ files
                /\ log' = [log EXCEPT ![r] = log[r] \o
                             <<Event("write", FilePath(local[r].filename) \o local[r].data),
                               Event("reply", FileReceivedText(local[r].filename))>>]
                /\ local' = [local EXCEPT ![r].message = AgentMessage(local[r].filename)]
                /\ pc' = [pc EXCEPT ![r] = "run_agent"]
                /\ UNCHANGED status
          [] o = "open raises" ->
                /\ Returned(r, <<Event("write_raised", <<"OSError">>),
                                 Event("reply", DownloadErrorText("OSError"))>>)
                /\ UNCHANGED <<local, files>>
          [] o = "write raises" ->
                /\ files' = (local[r].filename :> <<>>) @@ files
                /\ Returned(r, <<Event("write_raised", <<"OSError">>),
                                 Event("reply", DownloadErrorText("OSError"))>>)
                /\ UNCHANGED local
    /\ UNCHANGED <<mode, allowedTenant, request, cliPc, cliLog, toolVars>>

\* _run_agent: Orchestrator.run is handed to the executor and starts in a
\* worker thread; the handler is suspended on its future.
RunAgent(r) ==
    /\ pc[r] = "run_agent"
    /\ log' = [log EXCEPT ![r] = Append(log[r], Event("run", local[r].message))]
    /\ local' = [local EXCEPT ![r].future = [kind |-> "running", val |-> <<>>]]
    /\ pc' = [pc EXCEPT ![r] = "await_agent"]
    /\ UNCHANGED <<mode, allowedTenant, request, status, files, cliPc, cliLog, toolVars>>

\* A faulty variant of FutureOf: one result slot shared by all the handlers.
FutureShared(r, outcome) ==
    [q \in Requests |-> [local[q] EXCEPT !.future = outcome]]

\* The future the handler of r resumes with.
FutureOf(r, outcome) == [local EXCEPT ![r].future = outcome]

\* The bytes at uploads/filename, None when there is no such file.
ReadFile(filename) ==
    IF filename \in DOMAIN files THEN files[filename] ELSE None

\* Orchestrator.run returns or raises in its worker thread.  For a saved
\* file the agent has by then read what the path in its message holds.
OrchestratorRun(r) ==
    /\ pc[r] = "await_agent"
    /\ \E o \in OrchestratorOutcomes(local[r].message) :
        local' = [FutureOf(r, o) EXCEPT ![r].read =
                    IF local[r].branch = "file"
                    THEN ReadFile(local[r].filename)
                    ELSE None]
    /\ pc' = [pc EXCEPT ![r] = "resume"]
    /\ UNCHANGED <<mode, allowedTenant, request, log, status, files, cliPc, cliLog, toolVars>>

\* A faulty variant of ScanDocumentId: the id is looked for right after the
\* colon (the pattern without its \s*).
ScanDocumentIdNoSkip(response) ==
    LET starts == {i \in 1..(Len(response) - 1) :
                     /\ response[i] = "Document ID:"
                     /\ response[i + 1] \notin Whitespace}
    IN  IF starts = {} THEN None
        ELSE LET i == CHOOSE x \in starts : \A y \in starts : x <= y
                 k == CHOOSE x \in (i + 1)..Len(response) :
                        /\ \A y \in (i + 1)..x : response[y] \notin Whitespace
                        /\ x = Len(response) \/ response[x + 1] \in Whitespace
             IN  SubSeq(response, i + 1, k)

\* re.search(r"Document ID:\s*(\S+)", response): group 1 of the leftmost
\* match, None when the response holds no match.  \s* passes over the
\* whitespace after the colon and \S+ takes all that follows up to the
\* next whitespace.
ScanDocumentId(response) ==
    LET first(i) == CHOOSE j \in (i + 1)..Len(response) :
                        /\ response[j] \notin Whitespace
                        /\ \A y \in (i + 1)..(j - 1) : response[y] \in Whitespace
        starts == {i \in 1..Len(response) :
                     /\ response[i] = "Document ID:"
                     /\ \E j \in (i + 1)..Len(response) :
                            /\ response[j] \notin Whitespace
                            /\ \A y \in (i + 1)..(j - 1) : response[y] \in Whitespace}
    IN  IF starts = {} THEN None
        ELSE LET i == CHOOSE x \in starts : \A y \in starts : x <= y
                 j == first(i)
                 k == CHOOSE x \in j..Len(response) :
                        /\ \A y \in j..x : response[y] \notin Whitespace
                        /\ x = Len(response) \/ response[x + 1] \in Whitespace
             IN  SubSeq(response, j, k)

\* A faulty variant of Confirmation: the confirmation is made part of the
\* response.
ConfirmationInReply(branch, response) ==
    IF branch = "file" /\ ScanDocumentId(response) # None
    THEN <<Event("reply", <<"Lexoffice upload confirmed">>)>>
    ELSE <<>>

\* _handle_file_attachment after the agent's call: the log entry for a
\* document id found in the response.
Confirmation(branch, response) ==
    IF branch = "file" /\ ScanDocumentId(response) # None
    THEN <<Event("confirmed", ScanDocumentId(response))>>
    ELSE <<>>

\* adapter.on_turn_error: the apology.  The adapter's pipeline calls it in
\* place of raising, so process_activity returns.
OnError == <<Event("reply", ApologyText)>>

\* The handler resumes with the future's result: the reply, or, when
\* Orchestrator.run raised, the exception leaves the turn and on_error runs.
Resume(r) ==
    /\ pc[r] = "resume"
    /\ IF local[r].future.kind = "raise"
       THEN Returned(r, <<Event("raised", local[r].future.val)>> \o OnError)
       ELSE Returned(r, Confirmation(local[r].branch, local[r].future.val)
                        \o <<Event("reply", local[r].future.val)>>)
    /\ UNCHANGED <<mode, allowedTenant, request, local, files, cliPc, cliLog, toolVars>>

\* The response is sent and the connection takes the next request.
NextRequest(r) ==
    /\ pc[r] = "done"
    /\ request' = [request EXCEPT ![r] = NoRequest]
    /\ pc' = [pc EXCEPT ![r] = "idle"]
    /\ log' = [log EXCEPT ![r] = <<>>]
    /\ status' = [status EXCEPT ![r] = 0]
    /\ local' = [local EXCEPT ![r] = NoLocal]
    /\ UNCHANGED <<mode, allowedTenant, files, cliPc, cliLog, toolVars>>

\* ------------------------------------------------------- two users uploading

\* The POSTs of two users of tenant a who upload files at the same time:
\* the first a file named f, the second a file named f and one named g.
UploadRequestsOf(r) ==
    {[content_type |-> JsonContentType,
      body |-> [type |-> "message", channel_data |-> FromTenantA,
                text |-> None, attachments |-> <<att>>]] :
        att \in IF r = 1
                THEN {FileAttachment}
                ELSE {OtherFileAttachment, DistinctFileAttachment}}

\* The server as create_app leaves it with AZURE_TENANT_ID set to tenant a.
UploadInit ==
    /\ mode = "teams"
    /\ allowedTenant = OrElse(Strip(TenantA), None)
    /\ request = [r \in Requests |-> NoRequest]
    /\ pc = [r \in Requests |-> "idle"]
    /\ log = [r \in Requests |-> <<>>]
    /\ status = [r \in Requests |-> 0]
    /\ local = [r \in Requests |-> NoLocal]
    /\ files = <<>>
    /\ cliPc = "off"
    /\ cliLog = <<>>
    /\ apiKey = None
    /\ lastCall = NoCall
    /\ nCalls = 0
    /\ nRequests = 0

UploadNext ==
    \E r \in Requests :
        \/ MessagesFrom(r, UploadRequestsOf(r))
        \/ Download(r)
        \/ WriteFile(r)
        \/ RunAgent(r)
        \/ OrchestratorRun(r)
        \/ Resume(r)
        \/ NextRequest(r)

UploadSpec == UploadInit /\ [][UploadNext]_vars

\* ------------------------------------------------- every path of the turn

\* An activity of the given type from a tenant, with a text and attachments.
ActivityOf(type, channel_data, text, attachments) ==
    [type |-> type, channel_data |-> channel_data,
     text |-> text, attachments |-> attachments]

\* The POSTs of a user whose activities take each path of the turn: from
\* another tenant, without text, with text, with a file without and with a
\* download URL, and an activity that is not a message.
PathRequests ==
    {[content_type |-> JsonContentType, body |-> a] :
        a \in {ActivityOf("message",
                          [kind |-> "dict",
                           tenant |-> [kind |-> "dict", id |-> TenantB]],
                          <<"a">>, <<FileAttachment>>),
               ActivityOf("message", FromTenantA, None, <<>>),
               ActivityOf("message", FromTenantA, <<" ">>, <<ImageAttachment>>),
               ActivityOf("message", FromTenantA, <<"a">>, <<>>),
               ActivityOf("message", FromTenantA, <<"a">>, <<FileNoUrlAttachment>>),
               ActivityOf("message", FromTenantA, None, <<FileAttachment>>),
               ActivityOf("typing", FromTenantA, None, <<>>)}}

LiveRequestsOf(r) == IF r = 1 THEN PathRequests ELSE BackgroundRequests

LiveNext ==
    \E r \in Requests :
        \/ MessagesFrom(r, LiveRequestsOf(r))
        \/ Download(r)
        \/ WriteFile(r)
        \/ RunAgent(r)
        \/ OrchestratorRun(r)
        \/ Resume(r)
        \/ NextRequest(r)

\* The event loop runs every handler that can go on, every fetch ends and
\* every Orchestrator.run call ends.  Nothing is asked of the arrival of
\* requests.
LiveFairness ==
    \A r \in Requests :
        /\ WF_vars(Download(r))
        /\ WF_vars(WriteFile(r))
        /\ WF_vars(RunAgent(r))
        /\ WF_vars(OrchestratorRun(r))
        /\ WF_vars(Resume(r))

LiveSpec == UploadInit /\ [][LiveNext]_vars /\ LiveFairness

\* ------------------------------------------------------ the interactive loop

\* The lines a user types.
CliLines ==
    {<<>>, <<" ">>, <<"a">>, <<" ", "a", "\t">>,
     <<"e", "x", "i", "t">>, <<" ", "Q", "u", "I", "T", " ">>,
     <<"e", "x", "i", "t", " ", "a">>}

ExitWords == {<<"e", "x", "i", "t">>, <<"q", "u", "i", "t">>}

\* A faulty variant of IsExit: the comparison is case-sensitive.
IsExitCaseSensitive(user_input) == user_input \in ExitWords

\* user_input.lower() in ("exit", "quit")
IsExit(user_input) == Lower(user_input) \in ExitWords

\* The lines read so far.
CliReads == SelectSeq(cliLog, LAMBDA e : e.ev = "read")

\* The argument of the Orchestrator.run call in progress.
CliMessage == cliLog[Len(cliLog)].val

\* run_cli: one pass of the loop up to the Orchestrator call.
CliRead ==
    /\ cliPc = "prompt"
    /\ Len(CliReads) < MaxCliLines
    /\ \E line \in CliLines :
        LET user_input == Strip(line)
            read == Append(cliLog, Event("read", line))
        IN  IF IsExit(user_input)
            THEN /\ cliPc' = "exited"
                 /\ cliLog' = read
            ELSE IF ~Truthy(user_input)
            THEN /\ cliPc' = "prompt"
                 /\ cliLog' = read
            ELSE /\ cliPc' = "running"
                 /\ cliLog' = Append(read, Event("run", user_input))
    /\ UNCHANGED <<mode, botVars, toolVars>>

\* input() at the end of standard input raises EOFError.
CliEof ==
    /\ cliPc = "prompt"
    /\ cliPc' = "crashed"
    /\ UNCHANGED <<mode, botVars, cliLog, toolVars>>

\* run_cli: Orchestrator.run returns and the response is printed, or it
\* raises and the exception ends the process.
CliRespond ==
    /\ cliPc = "running"
    /\ \E o \in OrchestratorOutcomes(CliMessage) :
        IF o.kind = "ok"
        THEN /\ cliPc' = "prompt"
             /\ cliLog' = Append(cliLog, Event("print", <<"Agent: ">> \o o.val))
        ELSE /\ cliPc' = "crashed"
             /\ cliLog' = Append(cliLog, Event("raised", o.val))
    /\ UNCHANGED <<mode, botVars, toolVars>>

\* ------------------------------------------------------- the Lexoffice tools

BaseUrl == "https://api.lexoffice.io/v1"

KeyNotSetText == <<"LEXOFFICE_API_KEY is not set.">>

\* f"Error: File not found at '{file_path}'."
FileNotFoundText(file_path) ==
    <<"Error: File not found at", " ", "'">> \o file_path \o <<"'", ".">>

\* f"Error: '{file_path}' is not a file."
NotAFileText(file_path) ==
    <<"Error:", " ", "'">> \o file_path \o <<"'", " ", "is not a file.">>

\* f"Upload failed (HTTP {e.response.status_code}): {e.response.text}"
UploadHttpFailedText(status_code, text) ==
    <<"Upload failed (HTTP", " ", status_code, "):", " ">> \o text

\* f"Upload failed: {e}", e being the exception's message
UploadFailedText(e) == <<"Upload failed:", " ">> \o e

\* The messages of the exceptions the environment raises.
StatErrorText == <<"[Errno 36] File name too long">>
OpenErrorText == <<"[Errno 13] Permission denied">>
ConnectionErrorText == <<"Connection refused">>
JsonErrorText == <<"Expecting value: line 1 column 1 (char 0)">>
AttributeErrorText == <<"'list' object has no attribute 'get'">>

\* requests' message of an HTTPError.
HttpErrorText(status_code) == <<status_code, " Error">>

\* The default of response.json().get("id", "unknown")
Unknown == <<"u", "n", "k", "n", "o", "w", "n">>

\* os.getenv("LEXOFFICE_API_KEY"): not set, empty, or a key.
ApiKeys == {None, <<>>, <<"k">>}

\* The file_path arguments the reasoning loop passes.
FilePaths == {<<"/", "u", "/", "f">>, <<"d">>}

\* What stat() of the path tells Path.exists() and Path.is_file(): a regular
\* file, a directory, nothing there, or an error other than "not found"
\* (a name too long, a directory that may not be searched), which pathlib
\* passes on.
StatOutcomes == {"file", "dir", "missing", "error"}

\* open(path, "rb")
OpenOutcomes == {"ok", "raises"}

IdChars == {"a", " "}

\* The ids the API may answer with: characters of every kind.
DocumentIds == SeqsUpTo(IdChars, MaxIdLen)

\* What response.json() makes of a body: an object with its "id" and
\* "content" entries (None: no such entry), another JSON value, or a
\* decoding error.
Json(kind, id, content) == [kind |-> kind, id |-> id, content |-> content]

\* Response bodies of POST /files: with and without "id", or not an object.
UploadBodies ==
    {[text |-> <<"{\"id\": \"">> \o id \o <<"\"}">>,
      json |-> Json("dict", id, None)] : id \in DocumentIds}
    \cup {[text |-> <<"{}">>, json |-> Json("dict", None, None)],
          [text |-> <<"[]">>, json |-> Json("list", None, None)],
          [text |-> <<"<html>">>, json |-> Json("invalid", None, None)]}

\* Response bodies of the GET calls: with and without "content", or not JSON.
ListBodies ==
    {[text |-> <<"{\"content\": [1]}">>, json |-> Json("dict", None, <<"1">>)],
     [text |-> <<"{}">>, json |-> Json("dict", None, None)],
     [text |-> <<"<html>">>, json |-> Json("invalid", None, None)]}

StatusCodes == {"200", "404"}

NoBody == [text |-> <<>>, json |-> Json("invalid", None, None)]

\* What requests.get and requests.post come to: a response, or an
\* exception when no response arrives.
HttpOutcomes(bodies) ==
    {[kind |-> "raise", status_code |-> "0", body |-> NoBody]}
    \cup [kind : {"response"}, status_code : StatusCodes, body : bodies]

\* An exception leaves the call: its type, then its message.
Raise(type, msg) == [kind |-> "raise", val |-> <<type>> \o msg]

Return(val) == [kind |-> "return", val |-> val]

\* What a tool call did and came to.
Call(events, result) == [events |-> events, result |-> result]

\* response.raise_for_status(): HTTPError for a 4xx or 5xx status.
IsHttpError(status_code) == status_code # "200"

\* A faulty variant of GetHeaders: an empty key is taken for a key.
GetHeadersEmptyKeyAccepted(api_key) ==
    IF api_key = None
    THEN Raise("ValueError", KeyNotSetText)
    ELSE Return(<<"Bearer ">> \o api_key)

\* _get_headers and _get_auth_header: the Authorization header, or
\* ValueError when the key is not set or empty.
GetHeaders(api_key) ==
    IF ~Truthy(api_key)
    THEN Raise("ValueError", KeyNotSetText)
    ELSE Return(<<"Bearer ">> \o api_key)

\* What the calls of upload_document do before the request, in order.
Stat(file_path) == Event("stat", file_path)
Open(file_path) == Event("open", file_path)
Getenv == Event("getenv", <<"LEXOFFICE_API_KEY">>)

\* A request as requests.get and requests.post send it.
HttpRequest(method, endpoint, headers) ==
    Event("request", <<method, BaseUrl>> \o endpoint \o headers)

\* upload_document from the try statement on: the file is opened, the key
\* is read, the file is posted and the response is turned into a string.
TryUpload(file_path, api_key, env) ==
    LET headers == GetHeaders(api_key)
        before == <<Stat(file_path), Open(file_path)>>
        post == HttpRequest("POST", <<"/files">>, headers.val)
        sent == before \o <<Getenv, post>>
        body == env.http.body
    IN  IF env.open = "raises"
        THEN Call(before, Return(UploadFailedText(OpenErrorText)))
        ELSE IF headers.kind = "raise"
        THEN Call(before \o <<Getenv>>, Return(UploadFailedText(Tail(headers.val))))
        ELSE IF env.http.kind = "raise"
        THEN Call(sent, Return(UploadFailedText(ConnectionErrorText)))
        ELSE IF IsHttpError(env.http.status_code)
        THEN Call(sent, Return(UploadHttpFailedText(env.http.status_code, body.text)))
        ELSE IF body.json.kind = "invalid"
        THEN Call(sent, Return(UploadFailedText(JsonErrorText)))
        ELSE IF body.json.kind # "dict"
        THEN Call(sent, Return(UploadFailedText(AttributeErrorText)))
        ELSE Call(sent, Return(UploadSuccessText(
                        IF body.json.id = None THEN Unknown ELSE body.json.id)))

\* A faulty variant of UploadDocument: the key is read before the path is
\* looked at.
UploadDocumentKeyFirst(file_path, api_key, env) ==
    IF GetHeaders(api_key).kind = "raise"
    THEN Call(<<Getenv>>, Return(UploadFailedText(KeyNotSetText)))
    ELSE TryUpload(file_path, api_key, env)

\* upload_document(file_path): the two checks of the path, then the upload.
UploadDocument(file_path, api_key, env) ==
    IF env.stat = "error"
    THEN Call(<<Stat(file_path)>>, Raise("OSError", StatErrorText))
    ELSE IF env.stat = "missing"
    THEN Call(<<Stat(file_path)>>, Return(FileNotFoundText(file_path)))
    ELSE IF env.stat # "file"
    THEN Call(<<Stat(file_path)>>, Return(NotAFileText(file_path)))
    ELSE TryUpload(file_path, api_key, env)

\* The body of get_contacts and get_invoices: the headers, the GET, the
\* status check and the "content" entry of the JSON body.
GetList(endpoint, api_key, env) ==
    LET headers == GetHeaders(api_key)
        sent == <<Getenv, HttpRequest("GET", endpoint, headers.val)>>
        body == env.http.body
    IN  IF headers.kind = "raise"
        THEN Call(<<Getenv>>, headers)
        ELSE IF env.http.kind = "raise"
        THEN Call(sent, Raise("ConnectionError", ConnectionErrorText))
        ELSE IF IsHttpError(env.http.status_code)
        THEN Call(sent, Raise("HTTPError", HttpErrorText(env.http.status_code)))
        ELSE IF body.json.kind = "invalid"
        THEN Call(sent, Raise("JSONDecodeError", JsonErrorText))
        ELSE Call(sent, Return(IF body.json.content = None
                               THEN <<>> ELSE body.json.content))

\* get_contacts()
GetContacts(api_key, env) == GetList(<<"/contacts">>, api_key, env)

\* get_invoices()
GetInvoices(api_key, env) ==
    GetList(<<"/voucherlist", "voucherType=invoice", "voucherStatus=any">>,
            api_key, env)

\* The environment of one call of upload_document.
UploadEnvs ==
    [stat : StatOutcomes, open : OpenOutcomes, http : HttpOutcomes(UploadBodies)]

\* The environment of one call of get_contacts or get_invoices.
ListEnvs == [stat : {"none"}, open : {"none"}, http : HttpOutcomes(ListBodies)]

\* The number of requests among the events of a call.
RequestsIn(events) ==
    Cardinality({i \in 1..Len(events) : events[i].ev = "request"})

\* The reasoning loop calls a tool: the call runs to its end.
ToolCall(op, arg, env, call) ==
    /\ nCalls < MaxToolCalls
    /\ lastCall' = [op |-> op, arg |-> arg, env |-> env,
                    events |-> call.events, result |-> call.result]
    /\ nCalls' = nCalls + 1
    /\ nRequests' = nRequests + RequestsIn(call.events)
    /\ UNCHANGED <<mode, botVars, cliVars, apiKey>>

CallUploadDocument ==
    \E file_path \in FilePaths, env \in UploadEnvs :
        ToolCall("upload_document", file_path, env,
                 UploadDocument(file_path, apiKey, env))

CallGetContacts ==
    \E env \in ListEnvs :
        ToolCall("get_contacts", <<>>, env, GetContacts(apiKey, env))

CallGetInvoices ==
    \E env \in ListEnvs :
        ToolCall("get_invoices", <<>>, env, GetInvoices(apiKey, env))

\* The tools in a process whose environment holds any of the keys.
ToolInit ==
    /\ mode = "init"
    /\ allowedTenant = None
    /\ request = [r \in Requests |-> NoRequest]
    /\ pc = [r \in Requests |-> "idle"]
    /\ log = [r \in Requests |-> <<>>]
    /\ status = [r \in Requests |-> 0]
    /\ local = [r \in Requests |-> NoLocal]
    /\ files = <<>>
    /\ cliPc = "off"
    /\ cliLog = <<>>
    /\ apiKey \in ApiKeys
    /\ lastCall = NoCall
    /\ nCalls = 0
    /\ nRequests = 0

ToolNext ==
    \/ CallUploadDocument
    \/ CallGetContacts
    \/ CallGetInvoices

ToolSpec == ToolInit /\ [][ToolNext]_vars

\* ------------------------------------------------------------ specification

Next ==
    \/ Main
    \/ \E r \in Requests :
        \/ Messages(r)
        \/ Download(r)
        \/ WriteFile(r)
        \/ RunAgent(r)
        \/ OrchestratorRun(r)
        \/ Resume(r)
        \/ NextRequest(r)
    \/ CliRead
    \/ CliEof
    \/ CliRespond

Spec == Init /\ [][Next]_vars

\* ------------------------------------------------------------- observations

\* The events of kind ev in the log of r, as their values.
Vals(r, ev) ==
    LET es == SelectSeq(log[r], LAMBDA e : e.ev = ev)
    IN  [i \in 1..Len(es) |-> es[i].val]

\* The replies sent with turn_context.send_activity for r, in order.
Replies(r) == Vals(r, "reply")

\* The arguments of the Orchestrator.run calls made for r, in order.
Runs(r) == Vals(r, "run")

Has(r, ev) == \E i \in 1..Len(log[r]) : log[r][i].ev = ev

Activity(r) == request[r].body

\* The bot's on_turn ran for the request of r.
ReachedBot(r) == Has(r, "on_turn")

\* -------------------------------------------------- the claims' vocabulary
\* Stated on the inputs themselves, apart from the operators the handlers
\* are built from, so that a fault in one of those shows.

\* channel_data.tenant.id of an activity, None when there is none.
TenantIdOf(a) ==
    IF a.channel_data.kind = "dict" /\ a.channel_data.tenant.kind = "dict"
    THEN a.channel_data.tenant.id
    ELSE None

\* A tenant is configured and the activity of r does not carry it.
WrongTenant(r) ==
    allowedTenant # None /\ TenantIdOf(Activity(r)) # allowedTenant

IsFile(att) == att.content_type = FileDownloadInfo

HasFile(a) == \E i \in 1..Len(a.attachments) : IsFile(a.attachments[i])

\* Absent, empty or whitespace-only.
Blank(t) == t = None \/ \A i \in 1..Len(t) : t[i] \in Whitespace

\* v is a stretch of t.
IsPartOf(v, t) ==
    \E i \in 1..Len(t) : \E j \in i..Len(t) : v = SubSeq(t, i, j)

\* t is s without its leading and trailing whitespace.
IsTrimOf(t, s) ==
    \E i \in 1..(Len(s) + 1) : \E j \in (i - 1)..Len(s) :
        /\ t = SubSeq(s, i, j)
        /\ \A k \in 1..(i - 1) : s[k] \in Whitespace
        /\ \A k \in (j + 1)..Len(s) : s[k] \in Whitespace
        /\ t = <<>> \/ (t[1] \notin Whitespace /\ t[Len(t)] \notin Whitespace)

InSeq(x, s) == \E i \in 1..Len(s) : s[i] = x

\* ------------------------------------------------------------------ claims

\* C1: with a tenant configured, a message activity whose
\* channel_data.tenant.id is not that tenant (absent and non-dict channel
\* data included) gets exactly one reply, the denial, whatever its text and
\* attachments; nothing is downloaded and Orchestrator.run is not called.
C1_TenantDenial ==
    \A r \in Requests :
        (ReachedBot(r) /\ Activity(r).type = "message" /\ WrongTenant(r))
        => /\ pc[r] = "done"
           /\ Replies(r) = <<DenialText>>
           /\ Runs(r) = <<>>
           /\ ~Has(r, "download")

C1_Witness ==
    \E r \in Requests :
        /\ pc[r] = "done"
        /\ Activity(r).type = "message"
        /\ Activity(r).channel_data.kind = "none"
        /\ Activity(r).text = <<"a">>
        /\ Activity(r).attachments = <<FileAttachment>>
        /\ allowedTenant = TenantA
        /\ Replies(r) = <<DenialText>>

\* C2: an authorized message activity without a file attachment whose text
\* is absent, empty or whitespace-only gets exactly one reply, the "please
\* send text or file" text: no "processing" acknowledgement, no
\* Orchestrator.run call.
C2_BlankText ==
    \A r \in Requests :
        (/\ ReachedBot(r)
         /\ Activity(r).type = "message"
         /\ ~WrongTenant(r)
         /\ ~HasFile(Activity(r))
         /\ Blank(Activity(r).text))
        => /\ pc[r] = "done"
           /\ Replies(r) = <<PleaseSendText>>
           /\ Runs(r) = <<>>

C2_Witness ==
    \E r \in Requests :
        /\ pc[r] = "done"
        /\ Activity(r).type = "message"
        /\ Activity(r).text = <<" ", " ">>
        /\ Activity(r).attachments = <<ImageAttachment>>
        /\ ~WrongTenant(r)
        /\ Replies(r) = <<PleaseSendText>>
        /\ status[r] = 200

\* C3: an authorized message activity with a file attachment and non-empty
\* text is handled by the attachment branch alone, on every path of it: no
\* Orchestrator.run call is given the text or a part of it, and neither
\* reply of the text branch is sent.
C3_AttachmentOnly ==
    \A r \in Requests :
        (/\ ReachedBot(r)
         /\ Activity(r).type = "message"
         /\ ~WrongTenant(r)
         /\ HasFile(Activity(r))
         /\ Truthy(Activity(r).text))
        => /\ \A i \in 1..Len(Runs(r)) : ~IsPartOf(Runs(r)[i], Activity(r).text)
           /\ ~InSeq(ProcessingText, Replies(r))
           /\ ~InSeq(PleaseSendText, Replies(r))

C3_Witness ==
    \E r \in Requests :
        /\ pc[r] = "done"
        /\ Activity(r).type = "message"
        /\ Activity(r).text = <<"a">>
        /\ Activity(r).attachments = <<FileAttachment>>
        /\ Runs(r) = <<AgentMessage(<<"f">>)>>
        /\ Replies(r) = <<FileReceivedText(<<"f">>), Answer(AgentMessage(<<"f">>))>>

\* C4: an activity whose type is not "message" gets no reply, not even the
\* tenant denial; nothing is downloaded and Orchestrator.run is not called:
\* on_turn does nothing more for it.
C4_TypeFilter ==
    \A r \in Requests :
        (ReachedBot(r) /\ Activity(r).type # "message")
        => /\ pc[r] = "done"
           /\ log[r] = <<Event("process_activity", <<>>), Event("on_turn", <<>>)>>

C4_Witness ==
    \E r \in Requests :
        /\ pc[r] = "done"
        /\ Activity(r).type = "typing"
        /\ WrongTenant(r)
        /\ Truthy(Activity(r).text)
        /\ HasFile(Activity(r))
        /\ Replies(r) = <<>>
        /\ status[r] = 200

\* C5: however the handling of two activities interleaves, an activity's
\* one Orchestrator.run call is made with its own message, and its final
\* reply is the result of that call, never the result of the other
\* activity's call.  (The witness is the overlap: both calls in progress.)
C5_OwnResult ==
    \A r \in Requests :
        (pc[r] = "done" /\ Runs(r) # <<>>)
        => /\ Len(Runs(r)) = 1
           /\ IF HasFile(Activity(r))
              THEN \E i \in 1..Len(Activity(r).attachments) :
                      Runs(r)[1] = AgentMessage(Activity(r).attachments[i].name)
              ELSE IsTrimOf(Runs(r)[1], Activity(r).text)
           /\ IF Has(r, "raised")
              THEN Replies(r)[Len(Replies(r))] = ApologyText
              ELSE /\ Replies(r)[Len(Replies(r))]
                        \in {Answer(Runs(r)[1]), UploadAnswer(Runs(r)[1])}
                   /\ \A q \in Requests \ {r} :
                        \A i \in 1..Len(Runs(q)) :
                            Runs(q)[i] # Runs(r)[1]
                            => Replies(r)[Len(Replies(r))]
                                 \notin {Answer(Runs(q)[i]), UploadAnswer(Runs(q)[i])}

C5_Witness ==
    /\ pc[1] = "await_agent"
    /\ pc[2] = "await_agent"
    /\ Runs(1) = << <<"a">> >>
    /\ Runs(2) = << <<"a", "a">> >>
    /\ Replies(1) = <<ProcessingText>>
    /\ Replies(2) = <<ProcessingText>>
    /\ status[1] = 0
    /\ status[2] = 0

\* C6: when an exception is raised while the bot handles an activity, the
\* user gets the apology and the request is answered 500, and the server
\* keeps running.
C6_ApologyAnd500 ==
    \A r \in Requests :
        (pc[r] = "done" /\ Has(r, "raised"))
        => /\ InSeq(ApologyText, Replies(r))
           /\ status[r] = 500
           /\ mode = "teams"

\* C7: when the adapter rejects the Authorization header, the request is
\* answered 401 or 403, on_turn does not run and Orchestrator.run is not
\* called.
C7_AuthFailureStatus ==
    \A r \in Requests :
        Has(r, "auth_rejected")
        => /\ status[r] \in {401, 403}
           /\ ~Has(r, "on_turn")
           /\ Runs(r) = <<>>

\* C8: a POST whose content type does not contain application/json is
\* answered 415, whatever its body; one with it and a body that is not JSON
\* is answered 400; in both cases process_activity is not invoked, nothing
\* is replied and Orchestrator.run is not called.
C8_ProtocolErrors ==
    \A r \in Requests :
        pc[r] # "idle"
        => /\ ~InSeq("application/json", request[r].content_type)
              => (pc[r] = "done" /\ status[r] = 415 /\ log[r] = <<>>)
           /\ (/\ InSeq("application/json", request[r].content_type)
               /\ request[r].body = InvalidBody)
              => (pc[r] = "done" /\ status[r] = 400 /\ log[r] = <<>>)

C8_Witness ==
    \E r \in Requests :
        /\ pc[r] = "done"
        /\ request[r].content_type = <<"text/plain">>
        /\ request[r].body = InvalidBody
        /\ status[r] = 415
        /\ log[r] = <<>>

\* The stretches of s, the empty one included.
Parts(s) ==
    {<<>>} \cup {SubSeq(s, i, j) : i \in 1..Len(s), j \in 1..Len(s)}

\* s without its leading and trailing whitespace, by IsTrimOf.
Trimmed(s) == CHOOSE t \in Parts(s) : IsTrimOf(t, s)

ExitSpellings ==
    {<<{"e", "E"}, {"x", "X"}, {"i", "I"}, {"t", "T"}>>,
     <<{"q", "Q"}, {"u", "U"}, {"i", "I"}, {"t", "T"}>>}

\* t is "exit" or "quit" in some letter case.
IsExitWord(t) ==
    /\ Len(t) = 4
    /\ \E w \in ExitSpellings : \A i \in 1..4 : t[i] \in w[i]

\* A line the loop hands to the Orchestrator: not blank, not exit or quit.
IsMessageLine(line) == Trimmed(line) # <<>> /\ ~IsExitWord(Trimmed(line))

\* C9: in the interactive loop every line read that is neither blank nor
\* exit/quit is followed at once by one Orchestrator.run call with the
\* trimmed line, and, when that call returns, by one "Agent: " line carrying
\* its result, before the next line is read; a blank line is followed by
\* the next read, with no call and no output.  Calls and "Agent: " lines
\* occur nowhere else.
C9_OneCallOnePrint ==
    /\ \A i \in 1..Len(cliLog) :
        cliLog[i].ev = "read"
        => IF IsMessageLine(cliLog[i].val)
           THEN /\ i < Len(cliLog)
                /\ cliLog[i + 1] = Event("run", Trimmed(cliLog[i].val))
                /\ i + 2 <= Len(cliLog)
                   => \/ cliLog[i + 2] =
                           Event("print", <<"Agent: ">> \o Answer(cliLog[i + 1].val))
                      \/ /\ cliLog[i + 2].ev = "raised"
                         /\ i + 2 = Len(cliLog)
                         /\ cliPc = "crashed"
                /\ i + 3 <= Len(cliLog) => cliLog[i + 3].ev = "read"
                /\ cliPc = "prompt" => i + 2 <= Len(cliLog)
           ELSE i < Len(cliLog) => cliLog[i + 1].ev = "read"
    /\ \A i \in 1..Len(cliLog) :
        cliLog[i].ev = "run"
        => i > 1 /\ cliLog[i - 1].ev = "read" /\ IsMessageLine(cliLog[i - 1].val)
    /\ \A i \in 1..Len(cliLog) :
        (cliLog[i].ev = "print" /\ cliLog[i].val[1] = "Agent: ")
        => i > 1 /\ cliLog[i - 1].ev = "run"

C9_Witness ==
    /\ cliPc = "prompt"
    /\ cliLog = CliBanner \o
         <<Event("read", <<" ">>),
           Event("read", <<" ", "a", "\t">>),
           Event("run", <<"a">>),
           Event("print", <<"Agent: ">> \o Answer(<<"a">>)),
           Event("read", <<>>)>>

\* C10: a line that is exit or quit in any letter case, once trimmed, ends
\* the loop: no Orchestrator.run call is made for it and nothing is read or
\* done after it; and the loop ends normally only on such a line.
C10_ExitEndsLoop ==
    /\ \A i \in 1..Len(cliLog) :
        (cliLog[i].ev = "read" /\ IsExitWord(Trimmed(cliLog[i].val)))
        => i = Len(cliLog) /\ cliPc = "exited"
    /\ cliPc = "exited"
       => /\ cliLog[Len(cliLog)].ev = "read"
          /\ IsExitWord(Trimmed(cliLog[Len(cliLog)].val))

C10_Witness ==
    /\ cliPc = "exited"
    /\ cliLog = CliBanner \o
         <<Event("read", <<"a">>),
           Event("run", <<"a">>),
           Event("print", <<"Agent: ">> \o Answer(<<"a">>)),
           Event("read", <<" ", "Q", "u", "I", "T", " ">>)>>

\* ------------------------------------------------- claims on the tools

\* The latest call was upload_document.
Uploaded == lastCall.op = "upload_document"

\* The events of kind ev among those of the latest call.
CallHas(ev) == \E i \in 1..Len(lastCall.events) : lastCall.events[i].ev = ev

\* The latest upload got as far as the request and was answered.
Answered ==
    /\ Uploaded
    /\ lastCall.env.stat = "file"
    /\ lastCall.env.open = "ok"
    /\ apiKey \notin {None, <<>>}
    /\ lastCall.env.http.kind = "response"

\* C11: upload_document never raises: whatever the path and whatever the
\* environment does, the call returns a string; after an HTTP failure the
\* string holds the status code and the response body, after any other
\* failure the exception's message.
C11_UploadNeverRaises ==
    Uploaded
    => /\ lastCall.result.kind = "return"
       /\ (Answered /\ lastCall.env.http.status_code # "200")
          => /\ InSeq(lastCall.env.http.status_code, lastCall.result.val)
             /\ IsPartOf(lastCall.env.http.body.text, lastCall.result.val)
       /\ (Uploaded /\ lastCall.env.stat = "file" /\ lastCall.env.open = "raises")
          => IsPartOf(OpenErrorText, lastCall.result.val)

\* C12: upload_document on a path that does not exist returns a string
\* beginning "Error: File not found at", without a request and without
\* reading the key; on a path that exists and is not a regular file it
\* returns an error string, without a request.
C12_PathErrors ==
    Uploaded
    => /\ lastCall.env.stat = "missing"
          => /\ lastCall.result.kind = "return"
             /\ Head(lastCall.result.val) = "Error: File not found at"
             /\ IsPartOf(lastCall.arg, lastCall.result.val)
             /\ ~CallHas("request")
             /\ ~CallHas("getenv")
       /\ lastCall.env.stat = "dir"
          => /\ lastCall.result.kind = "return"
             /\ Head(lastCall.result.val) = "Error:"
             /\ ~CallHas("request")

C12_Witness ==
    /\ nCalls = 2
    /\ nRequests = 1
    /\ apiKey = <<"k">>
    /\ Uploaded
    /\ lastCall.env.stat = "missing"
    /\ lastCall.env.open = "ok"
    /\ lastCall.env.http.kind = "response"
    /\ lastCall.env.http.status_code = "200"
    /\ lastCall.arg = <<"d">>
    /\ lastCall.result.val =
         <<"Error: File not found at", " ", "'", "d", "'", ".">>

\* An id as the API gives it to a document: not empty, no whitespace.
IsDocumentId(id) ==
    id # None /\ id # <<>> /\ \A i \in 1..Len(id) : id[i] \notin Whitespace

\* C13: after a successful upload answered with the document id <id>,
\* upload_document returns exactly "Document uploaded successfully.
\* Document ID: <id>" and the adapter's scan of that string extracts
\* exactly <id>; answered with a body without "id", the string carries the
\* id "unknown".
C13_DocumentIdRoundTrip ==
    (/\ Answered
     /\ lastCall.env.http.status_code = "200"
     /\ lastCall.env.http.body.json.kind = "dict")
    => LET id == lastCall.env.http.body.json.id
           returned == lastCall.result.val
       IN  /\ lastCall.result.kind = "return"
           /\ IsDocumentId(id)
              => /\ returned = <<"Document uploaded successfully.", " ",
                                 "Document ID:", " ">> \o id
                 /\ ScanDocumentId(returned) = id
           /\ id = None
              => returned = <<"Document uploaded successfully.", " ",
                              "Document ID:", " ", "u", "n", "k", "n", "o", "w", "n">>

C13_Witness ==
    /\ Answered
    /\ lastCall.env.http.status_code = "200"
    /\ lastCall.env.http.body.json.id = <<"a", "a">>
    /\ lastCall.result.val = <<"Document uploaded successfully.", " ",
                               "Document ID:", " ", "a", "a">>
    /\ ScanDocumentId(lastCall.result.val) = <<"a", "a">>

\* C14: with the API key absent or empty, every call of get_contacts and
\* of get_invoices, the first and the later ones, fails with the
\* configuration error before a request is issued: no request leaves the
\* process.
C14_NoKeyNoRequest ==
    (apiKey = None \/ apiKey = <<>>)
    => /\ nRequests = 0
       /\ lastCall.op \in {"get_contacts", "get_invoices"}
          => /\ lastCall.result.kind = "raise"
             /\ lastCall.result.val = <<"ValueError", "LEXOFFICE_API_KEY is not set.">>
             /\ ~CallHas("request")

C14_Witness ==
    /\ apiKey = <<>>
    /\ nCalls = 2
    /\ lastCall.op = "get_invoices"
    /\ lastCall.env.http.kind = "response"
    /\ lastCall.env.http.status_code = "200"
    /\ lastCall.result.kind = "raise"
    /\ nRequests = 0

\* --------------------------------------------- claims on the bot, continued

\* C15: in every server that has started, tenant authorization is in force:
\* the bot's allowed tenant is set, so that a message activity that carries
\* no tenant id, which matches no tenant, is turned away with the denial
\* and Orchestrator.run is not called for it.
C15_TenantEnforced ==
    mode = "teams"
    => /\ allowedTenant # None
       /\ allowedTenant # <<>>
       /\ \A r \in Requests :
            (/\ ReachedBot(r)
             /\ Activity(r).type = "message"
             /\ TenantIdOf(Activity(r)) = None)
            => /\ Replies(r) = <<DenialText>>
               /\ Runs(r) = <<>>

\* An authorized message activity of r reached the bot.
Authorized(r) ==
    ReachedBot(r) /\ Activity(r).type = "message" /\ ~WrongTenant(r)

\* What the handler of r did in the bot's turn: its log after the entries
\* of process_activity and on_turn.
Did(r) == SubSeq(log[r], 3, Len(log[r]))

\* C16: for an authorized message activity with text that is not blank and
\* without a file attachment, the handler does, in this order and once
\* each: the "processing" reply, one Orchestrator.run call with the trimmed
\* text, and, once that call has returned, one reply that is its result
\* (the apology when it raised).  No reply follows the acknowledgement
\* while the call is in progress.
C16_TextBranchOrder ==
    \A r \in Requests :
        (Authorized(r) /\ ~HasFile(Activity(r)) /\ ~Blank(Activity(r).text))
        => LET ack == Event("reply", ProcessingText)
               call == Event("run", Trimmed(Activity(r).text))
               result == local[r].future
           IN  /\ Len(Did(r)) >= 1
               /\ Did(r)[1] = ack
               /\ Len(Did(r)) >= 2 => Did(r)[2] = call
               /\ Len(Did(r)) >= 3
                  => /\ pc[r] = "done"
                     /\ result.kind \in {"ok", "raise"}
                     /\ result.kind = "ok"
                        => Did(r) = <<ack, call, Event("reply", result.val)>>
                     /\ result.kind = "raise"
                        => Did(r) = <<ack, call, Event("raised", result.val),
                                      Event("reply", ApologyText)>>
               /\ pc[r] = "done" => Len(Did(r)) >= 3
               /\ result.kind \in {"none", "running"} => Replies(r) = <<ProcessingText>>

C16_Witness ==
    /\ pc[1] = "done"
    /\ Activity(1).text = <<" ", "a">>
    /\ Activity(1).attachments = <<ImageAttachment>>
    /\ status[1] = 200
    /\ log[1] = <<Event("process_activity", <<>>), Event("on_turn", <<>>),
                  Event("reply", ProcessingText), Event("run", <<"a">>),
                  Event("reply", Answer(<<"a">>))>>

\* The first attachment of an activity that is a file-download descriptor.
FirstFile(a) ==
    a.attachments[CHOOSE i \in 1..Len(a.attachments) :
                    /\ IsFile(a.attachments[i])
                    /\ \A j \in 1..(i - 1) : ~IsFile(a.attachments[j])]

\* The attachment carries no download URL.
NoUrl(att) ==
    att.content.kind # "dict" \/ att.content.downloadUrl \in {None, <<>>}

\* The statuses the fetches of r were answered with that are not 200.
BadStatuses(r) == {st \in {Vals(r, "status")[i] : i \in 1..Len(Vals(r, "status"))} :
                     st # <<"200">>}

\* The attachment sub-flow of r has failed.
Failed(r) ==
    \/ NoUrl(FirstFile(Activity(r)))
    \/ BadStatuses(r) # {}
    \/ Has(r, "fetch_raised")
    \/ Has(r, "write_raised")

\* The report of the failure of r.
FailureReport(r) ==
    IF NoUrl(FirstFile(Activity(r)))
    THEN NoDownloadUrlText
    ELSE IF BadStatuses(r) # {}
    THEN <<"Datei-Download fehlgeschlagen (HTTP ",
           (CHOOSE st \in BadStatuses(r) : TRUE)[1], ").">>
    ELSE <<"Beim Herunterladen der Datei ist ein Fehler aufgetreten: ",
           (IF Has(r, "fetch_raised")
            THEN Vals(r, "fetch_raised") ELSE Vals(r, "write_raised"))[1][1]>>

\* C17: when the attachment sub-flow fails (no download URL, a status
\* other than 200, the fetch or the write raises), the flow stops with one
\* reply, the report of that failure: the "file received" acknowledgement
\* is not sent, Orchestrator.run is not called and the download is not
\* tried again.
C17_FailureStops ==
    \A r \in Requests :
        (Authorized(r) /\ HasFile(Activity(r)) /\ Failed(r))
        => /\ pc[r] = "done"
           /\ Replies(r) = <<FailureReport(r)>>
           /\ log[r][Len(log[r])] = Event("reply", FailureReport(r))
           /\ Runs(r) = <<>>
           /\ Len(Vals(r, "download")) <= 1
           /\ Len(Vals(r, "status")) <= 1

C17_Witness ==
    /\ pc[1] = "done"
    /\ Activity(1).text = <<"a">>
    /\ Activity(1).attachments = <<ImageAttachment, FileAttachment>>
    /\ Vals(1, "download") = <<Url1>>
    /\ Vals(1, "status") = << <<"404">> >>
    /\ Replies(1) = <<DownloadFailedText("404")>>
    /\ Runs(1) = <<>>
    /\ status[1] = 200

\* C18: in an attachment sub-flow whose write succeeded the handler does,
\* in this order: the fetch, the write of the fetched bytes to the uploads
\* path, the "file received" reply, one Orchestrator.run call with a
\* message that holds the absolute path and the filename, and, once that
\* call has returned, one reply that is its result as it is (the apology
\* when it raised).  A document id found in the result is logged and
\* changes nothing of the reply.
C18_SuccessOrder ==
    \A r \in Requests :
        (Authorized(r) /\ HasFile(Activity(r)) /\ Has(r, "write"))
        => LET att == FirstFile(Activity(r))
               path == <<"/uploads/">> \o att.name
               bytes == <<"bytes of ">> \o att.content.downloadUrl
               result == local[r].future
               rest == SubSeq(Did(r), 6, Len(Did(r)))
           IN  /\ Len(Did(r)) >= 4
               /\ SubSeq(Did(r), 1, 4) =
                    <<Event("download", att.content.downloadUrl),
                      Event("status", <<"200">>),
                      Event("write", path \o bytes),
                      Event("reply", <<"Datei '">> \o att.name \o
                        <<"' wurde empfangen und gespeichert. Verarbeitung laeuft ...">>)>>
               /\ Len(Did(r)) >= 5
                  => /\ Did(r)[5].ev = "run"
                     /\ IsPartOf(path, Did(r)[5].val)
                     /\ IsPartOf(<<". Dateiname: ">> \o att.name, Did(r)[5].val)
               /\ Len(Did(r)) >= 6
                  => /\ pc[r] = "done"
                     /\ result.kind \in {"ok", "raise"}
                     /\ result.kind = "ok"
                        => \/ rest = <<Event("reply", result.val)>>
                           \/ /\ Len(rest) = 2
                              /\ rest[1].ev = "confirmed"
                              /\ rest[2] = Event("reply", result.val)
                     /\ result.kind = "raise"
                        => rest = <<Event("raised", result.val),
                                    Event("reply", ApologyText)>>
               /\ pc[r] = "done" => Len(Did(r)) >= 6
               /\ Len(Runs(r)) <= 1

C18_Witness ==
    /\ pc[1] = "done"
    /\ Activity(1).attachments = <<FileAttachment>>
    /\ Vals(1, "write") = << <<"/uploads/", "f", "bytes of ", "https://files.example/1">> >>
    /\ Vals(1, "confirmed") = << <<"a", "a">> >>
    /\ Len(Runs(1)) = 1
    /\ Replies(1) = <<FileReceivedText(<<"f">>), UploadAnswer(Runs(1)[1])>>
    /\ status[1] = 200

\* C19: Orchestrator.run is called at most once for an activity.  Of the
\* attachments of an authorized message activity only the first
\* file-download descriptor is handled: when it has no download URL the
\* turn ends with that report, whatever follows it in the list and whatever
\* the text is; otherwise the one fetch is of its URL and the one call is
\* for its file.  Attachments none of which is a file-download descriptor
\* leave the activity to the text branch.
C19_FirstFileOnly ==
    \A r \in Requests :
        /\ Len(Runs(r)) <= 1
        /\ Len(Vals(r, "download")) <= 1
        /\ (Authorized(r) /\ HasFile(Activity(r)))
           => LET att == FirstFile(Activity(r))
              IN  /\ NoUrl(att)
                     => /\ pc[r] = "done"
                        /\ Did(r) = <<Event("reply", NoDownloadUrlText)>>
                  /\ \A i \in 1..Len(Vals(r, "download")) :
                        Vals(r, "download")[i] = att.content.downloadUrl
                  /\ \A i \in 1..Len(Runs(r)) :
                        IsPartOf(<<"/uploads/">> \o att.name, Runs(r)[i])
                  /\ ~InSeq(ProcessingText, Replies(r))
                  /\ ~InSeq(PleaseSendText, Replies(r))
        /\ (Authorized(r) /\ ~HasFile(Activity(r)) /\ Activity(r).attachments # <<>>)
           => /\ ~Has(r, "download")
              /\ Did(r)[1] = Event("reply", IF Blank(Activity(r).text)
                                            THEN PleaseSendText
                                            ELSE ProcessingText)
              /\ \A i \in 1..Len(Runs(r)) : Runs(r)[i] = Trimmed(Activity(r).text)

C19_Witness ==
    /\ pc[1] = "done"
    /\ Activity(1).type = "message"
    /\ ~WrongTenant(1)
    /\ Activity(1).text = <<"a">>
    /\ Activity(1).attachments = <<FileNoUrlAttachment, FileAttachment>>
    /\ Did(1) = <<Event("reply", NoDownloadUrlText)>>
    /\ status[1] = 200

\* ------------------------------------------ claims on two users uploading

\* The names the uploads of the users other than r are saved under.
OtherNames(r) ==
    {h.body.attachments[1].name :
        h \in UNION {UploadRequestsOf(q) : q \in Requests \ {r}}}

\* C20: the Orchestrator.run call of an attachment activity is given the
\* path the activity's file was saved under, and when no upload of the
\* other user is saved under the same name, the file it reads there holds
\* the activity's own bytes, however the two flows interleave.  (Under the
\* same name the other write may come between the write and the read: the
\* witness is the state in which the first user's call has read the second
\* user's bytes and the first user is answered as if nothing had happened.)
C20_OwnBytes ==
    \A r \in Requests :
        (Authorized(r) /\ HasFile(Activity(r)) /\ Has(r, "run")
            /\ pc[r] \in {"resume", "done"})
        => LET att == FirstFile(Activity(r))
           IN  /\ IsPartOf(<<"/uploads/">> \o att.name, Runs(r)[1])
               /\ att.name \notin OtherNames(r)
                  => local[r].read = <<"bytes of ">> \o att.content.downloadUrl

C20_Witness ==
    /\ pc[1] = "done"
    /\ pc[2] = "await_agent"
    /\ Activity(1).attachments = <<FileAttachment>>
    /\ Activity(2).attachments = <<OtherFileAttachment>>
    /\ Vals(1, "write") = << <<"/uploads/", "f", "bytes of ", "https://files.example/1">> >>
    /\ Vals(2, "write") = << <<"/uploads/", "f", "bytes of ", "https://files.example/2">> >>
    /\ local[1].read = <<"bytes of ", "https://files.example/2">>
    /\ local[2].read = None
    /\ Replies(1) = <<FileReceivedText(<<"f">>), UploadAnswer(Runs(1)[1])>>
    /\ ~Has(1, "raised")
    /\ status[1] = 200

\* ------------------------------------------ claims on every path of the turn

\* C21: every message activity that reaches the bot's turn handler is
\* eventually sent at least one reply, given that every fetch and every
\* Orchestrator.run call ends: no path of the turn (denial, no download
\* URL, failed fetch or write, no text, the agent's answer, the agent's
\* exception) ends without a reply.
C21_EventuallyReplied ==
    \A r \in Requests :
        (ReachedBot(r) /\ Activity(r).type = "message") ~> (Replies(r) # <<>>)

C21_Witness ==
    /\ pc[1] = "done"
    /\ pc[2] = "await_agent"
    /\ Activity(1).type = "message"
    /\ Activity(1).attachments = <<FileAttachment>>
    /\ Has(1, "fetch_raised")
    /\ Replies(1) = <<DownloadErrorText("ClientConnectorError")>>
    /\ status[1] = 200

====
